---- MODULE Spec2Model ----
(***************************************************************************)
(* Newsletter management API: the request handlers of main.py, the storage *)
(* adapter of s3_config.py and the tables of models.py, as a state machine *)
(* over the relational store, the object store and the wall clock.         *)
(*                                                                         *)
(* An optional Python value is a sequence: None is <<>> and a value v is   *)
(* <<v>>.  A payload field is in turn unset (<<>>) or set to an optional   *)
(* value (<<None>> or <<Some(v)>>), as pydantic's exclude_unset sees it.   *)
(***************************************************************************)
EXTENDS Integers, Sequences, FiniteSets, TLC

\* ---------------------------------------------------------------- bounds
MaxNewsletterRequests == 2
MaxTemplateRequests == 2
MaxTemplates == 1
MaxClock == 1
MaxSetFields == 2
MaxSessionFields == 1

\* ---------------------------------------------------------------- values
None == <<>>
Some(v) == <<v>>
Unset == <<>>
SetTo(o) == <<o>>

Titles == {"t1", "t2"}
Contents == {"c1"}
Statuses == {"draft"}
Dates == {"d1"}
Names == {"Promo"}
TemplateIds == 1..MaxTemplates
Seconds == 0..MaxClock

ContentTypes == {"image/png", "image/gif"}
FileExts == {".png", ".PNG", ".gif"}

allowed_types == {"image/jpeg", "image/png"}
allowed_extensions == {".jpg", ".jpeg", ".png"}

\* str.lower() on the extensions the model uploads
lower(e) ==
  CASE e = ".PNG" -> ".png"
    [] e = ".GIF" -> ".gif"
    [] e = ".JPG" -> ".jpg"
    [] e = ".JPEG" -> ".jpeg"
    [] OTHER -> e

\* an uploaded file: its declared content type and its name, stem and extension
Images == [content_type : ContentTypes, filename : {"photo"} \X FileExts]

\* os.path.splitext(filename)[1]
splitext1(filename) == filename[2]

\* f"newsletter_{datetime.now().strftime('%Y%m%d_%H%M%S')}{file_extension}"
unique_filename(now, ext) == <<"newsletter_", now, ext>>

\* f"https://{S3_BUCKET_NAME}.s3.{S3_REGION}.amazonaws.com/{file_name}",
\* as its "/"-separated segments
S3Url(file_name) == <<"https:", "", "bucket.s3.region.amazonaws.com", file_name>>

\* image_url.split('/')[-1]
LastSegment(url) == url[Len(url)]

\* Python truthiness of an optional string column
Truthy(o) == o # None

\* the outcomes of one call of the storage SDK: success, a ClientError, or
\* any other exception (connection, credentials, transfer)
StorageOutcomes == {"ok", "client_error", "error"}

Fields == {"title", "content", "status", "scheduled_date", "template_id", "image_url"}

\* ----------------------------------------------------------------- state
VARIABLES
  newsletters,          \* table newsletters: id -> row
  templates,            \* table templates: id -> row
  blobs,                \* keys of the objects in the bucket
  clock,                \* wall clock, in seconds
  next_newsletter_id,   \* autoincrement of newsletters.id
  next_template_id,     \* autoincrement of templates.id
  requests,             \* the requests served so far, per resource
  last,                 \* the latest request and its response
  sessions              \* the update requests in flight, each with its db session

vars == <<newsletters, templates, blobs, clock, next_newsletter_id, next_template_id,
          requests, last, sessions>>

\* ------------------------------------------------------- storage adapter
upload_file_to_s3_url_outside_try(store, file_name, outcome) ==
  CASE outcome = "ok" ->
         [store |-> store \cup {file_name}, ret |-> Some(S3Url(file_name)), raised |-> FALSE]
    [] outcome = "client_error" ->
         [store |-> store, ret |-> Some(S3Url(file_name)), raised |-> FALSE]
    [] OTHER ->
         [store |-> store, ret |-> None, raised |-> TRUE]

\* upload_file_to_s3: the URL on success, None on ClientError; any other
\* exception of the SDK leaves the function
upload_file_to_s3(store, file_name, outcome) ==
  CASE outcome = "ok" ->
         [store |-> store \cup {file_name}, ret |-> Some(S3Url(file_name)), raised |-> FALSE]
    [] outcome = "client_error" ->
         [store |-> store, ret |-> None, raised |-> FALSE]
    [] OTHER ->
         [store |-> store, ret |-> None, raised |-> TRUE]

\* delete_file_from_s3: True on success, False on ClientError; any other
\* exception of the SDK leaves the function
delete_file_from_s3(store, file_name, outcome) ==
  CASE outcome = "ok" ->
         [store |-> store \ {file_name}, ret |-> TRUE, raised |-> FALSE]
    [] outcome = "client_error" ->
         [store |-> store, ret |-> FALSE, raised |-> FALSE]
    [] OTHER ->
         [store |-> store, ret |-> FALSE, raised |-> TRUE]

\* one entry of a request's log: a storage call with its outcome, or the commit
Call(fn, key, out) == [fn |-> fn, key |-> key, out |-> out]
Commit == Call("commit", None, "ok")

\* --------------------------------------------------------------- payloads
NoPayload == [f \in Fields |-> Unset]

SetFields(payload) == {f \in Fields : payload[f] # Unset}

\* NewsletterUpdate: every field optional, each either left unset or set to
\* a value or to null
JsonUrls == {S3Url(unique_filename(s, ".png")) : s \in Seconds}
NewsletterUpdate ==
  {p \in [title : {Unset} \cup {SetTo(None)} \cup {SetTo(Some(v)) : v \in Titles},
          content : {Unset} \cup {SetTo(None)} \cup {SetTo(Some(v)) : v \in Contents},
          status : {Unset} \cup {SetTo(None)} \cup {SetTo(Some(v)) : v \in Statuses},
          scheduled_date : {Unset} \cup {SetTo(None)} \cup {SetTo(Some(v)) : v \in Dates},
          template_id : {Unset} \cup {SetTo(None)} \cup {SetTo(Some(v)) : v \in TemplateIds},
          image_url : {Unset} \cup {SetTo(None)} \cup {SetTo(Some(v)) : v \in JsonUrls}] :
     Cardinality(SetFields(p)) <= MaxSetFields}

\* the form of update_newsletter_with_image: a field is None (absent) or a value
UpdateForms ==
  {p \in [title : {Unset} \cup {SetTo(Some(v)) : v \in Titles},
          content : {Unset} \cup {SetTo(Some(v)) : v \in Contents},
          status : {Unset} \cup {SetTo(Some(v)) : v \in Statuses},
          scheduled_date : {Unset} \cup {SetTo(Some(v)) : v \in Dates},
          template_id : {Unset} \cup {SetTo(Some(v)) : v \in TemplateIds},
          image_url : {Unset}] :
     Cardinality(SetFields(p)) <= MaxSetFields}

ApplyFields_exclude_none(row, payload) ==
  [c \in DOMAIN row |->
     IF c \in Fields /\ payload[c] # Unset /\ payload[c][1] # None
       THEN payload[c][1] ELSE row[c]]

\* setattr(db_newsletter, key, value) for every set field; the other columns
\* keep their values
ApplyFields(row, payload) ==
  [c \in DOMAIN row |->
     IF c \in Fields /\ payload[c] # Unset THEN payload[c][1] ELSE row[c]]

\* Column(onupdate=utcnow): refreshed by the UPDATE a changed row emits
Touch(old, new, now) ==
  IF new = old THEN old ELSE [new EXCEPT !.updated_at = now]

\* ------------------------------------------------------------- responses
\* the latest request: its handler, path id, uploaded file and payload, with
\* the response status and the handler's log
Response(op, id, status, calls, image, payload) ==
  [op |-> op, id |-> id, status |-> status, calls |-> calls,
   image |-> image, payload |-> payload]

\* one more request served on a resource
Served(resource) == requests' = [requests EXCEPT ![resource] = @ + 1]

\* response_model=schemas.Newsletter: title, content and status are required
\* strings, so a row with one of them null fails the validation of the response
ResponseValid(row) == row.title # None /\ row.content # None /\ row.status # None

\* the status of a response that carries a row: the handler has returned, and
\* a row that fails the response model is answered with a server error
Serialize(row) == IF ResponseValid(row) THEN 200 ELSE 500

\* the checks of create_newsletter_with_image on an uploaded file
InvalidImage(img) ==
  \/ img.content_type \notin allowed_types
  \/ lower(splitext1(img.filename)) \notin allowed_extensions

\* the update requests that run side by side
Sessions == {"A", "B"}

\* get_db: a request's own SessionLocal(), with nothing loaded yet
IdleSession ==
  [pc |-> "idle", op |-> "none", id |-> None, payload |-> NoPayload, image |-> None,
   loaded |-> None, staged |-> None, calls |-> << >>, status |-> 200,
   seen |-> {}, commit_no |-> 0]

Init ==
  /\ sessions = [s \in Sessions |-> IdleSession]
  /\ newsletters = << >>
  /\ templates = << >>
  /\ blobs = {}
  /\ clock = 0
  /\ next_newsletter_id = 1
  /\ next_template_id = 1
  /\ requests = [newsletter |-> 0, template |-> 0]
  /\ last = [op |-> "none", id |-> None, status |-> 200, calls |-> << >>,
             image |-> None, payload |-> NoPayload]

\* a row of a table added under a fresh key
Insert(table, id, row) == [i \in DOMAIN table \cup {id} |-> IF i = id THEN row ELSE table[i]]

\* a row of a table removed
Remove(table, id) == [i \in DOMAIN table \ {id} |-> table[i]]

\* db.rollback(): the pending changes of the session are dropped and the
\* table keeps its committed rows
rollback_flushes(committed, pending) == pending
rollback(committed, pending) == committed

\* the clock passes to the next second
Tick ==
  /\ clock < MaxClock
  /\ clock' = clock + 1
  /\ UNCHANGED <<newsletters, templates, blobs, next_newsletter_id, next_template_id,
                 requests, last, sessions>>

\* ------------------------------------------------------ template handlers
\* POST /templates/
create_template(name, content) ==
  /\ Served("template")
  /\ templates' = Insert(templates, next_template_id,
                         [name |-> name, content |-> content,
                          created_at |-> clock, updated_at |-> clock])
  /\ next_template_id' = next_template_id + 1
  /\ last' = Response("create_template", Some(next_template_id), 200, <<Commit>>, None, NoPayload)
  /\ UNCHANGED <<newsletters, blobs, clock, next_newsletter_id>>

Deassociate_cascade_delete(table, template_id, now) ==
  [i \in {j \in DOMAIN table : table[j].template_id # Some(template_id)} |-> table[i]]

\* relationship("Newsletter", back_populates="template") without a delete
\* cascade: the unit of work de-associates the children of a deleted parent,
\* setting their foreign key to NULL
Deassociate(table, template_id, now) ==
  [i \in DOMAIN table |->
     IF table[i].template_id = Some(template_id)
       THEN Touch(table[i], [table[i] EXCEPT !.template_id = None], now)
       ELSE table[i]]

\* the children of a template, in id order
RECURSIVE Children(_, _, _)
Children(table, template_id, from) ==
  IF \A i \in DOMAIN table : i < from
    THEN << >>
    ELSE IF from \in DOMAIN table /\ table[from].template_id = Some(template_id)
      THEN <<from>> \o Children(table, template_id, from + 1)
      ELSE Children(table, template_id, from + 1)

\* the log of a template's deletion: one UPDATE per child, then the commit
DeassociateCalls(children) ==
  [i \in 1..(Len(children) + 1) |->
     IF i <= Len(children) THEN Call("deassociate", Some(children[i]), "ok") ELSE Commit]

\* DELETE /templates/{template_id}
delete_template(template_id) ==
  /\ Served("template")
  /\ IF template_id \notin DOMAIN templates
       THEN /\ last' = Response("delete_template", Some(template_id), 404, << >>, None, NoPayload)
            /\ UNCHANGED <<newsletters, templates>>
       ELSE /\ templates' = Remove(templates, template_id)
            /\ newsletters' = Deassociate(newsletters, template_id, clock)
            /\ last' = Response("delete_template", Some(template_id), 200,
                                DeassociateCalls(Children(newsletters, template_id, 1)),
                                None, NoPayload)
  /\ UNCHANGED <<blobs, clock, next_newsletter_id, next_template_id>>

\* ---------------------------------------------------- newsletter handlers
\* A handler is one step: its storage calls are made inline, in the order of
\* the log it leaves in last.calls.  db.commit() may fail in
\* create_newsletter_with_image, the handler with a branch for that failure; in
\* the other handlers it succeeds.
\* POST /newsletters/with-image/
create_newsletter_with_image(title, content, status, scheduled_date, template_id, image, upload_outcome, db_ok) ==
  LET img == image[1]
      key == unique_filename(clock, splitext1(img.filename))
      up == upload_file_to_s3(blobs, key, upload_outcome)
      upload_call == Call("upload", key, upload_outcome)
      row(url) == [title |-> Some(title), content |-> Some(content), status |-> Some(status),
                   scheduled_date |-> scheduled_date, template_id |-> template_id,
                   image_url |-> url, created_at |-> clock, updated_at |-> clock]
      persist(url, calls) ==
        IF db_ok
          THEN /\ newsletters' = Insert(newsletters, next_newsletter_id, row(url))
               /\ next_newsletter_id' = next_newsletter_id + 1
               /\ last' = Response("create_newsletter_with_image", Some(next_newsletter_id),
                                   Serialize(row(url)), Append(calls, Commit), image,
                                   NoPayload)
          \* except Exception as db_error: rollback, HTTPException(500)
          ELSE /\ last' = Response("create_newsletter_with_image", None, 500, calls,
                                   image, NoPayload)
               /\ UNCHANGED <<newsletters, next_newsletter_id>>
  IN
  /\ Served("newsletter")
  /\ IF image = None
       THEN /\ persist(None, << >>)
            /\ blobs' = blobs
       ELSE IF InvalidImage(img)
         \* the HTTPException(400) is raised inside the try whose
         \* "except Exception as upload_error" turns it into HTTPException(500)
         THEN /\ last' = Response("create_newsletter_with_image", None, 500, << >>,
                                  image, NoPayload)
              /\ UNCHANGED <<newsletters, next_newsletter_id, blobs>>
       ELSE IF up.raised \/ up.ret = None
         \* a raised upload, or the HTTPException(500) for the sentinel, both
         \* leave through "except Exception as upload_error"
         THEN /\ last' = Response("create_newsletter_with_image", None, 500, <<upload_call>>,
                                  image, NoPayload)
              /\ blobs' = up.store
              /\ UNCHANGED <<newsletters, next_newsletter_id>>
       ELSE /\ persist(up.ret, <<upload_call>>)
            /\ blobs' = up.store
  /\ UNCHANGED <<templates, clock, next_template_id>>

\* PUT /newsletters/{newsletter_id}/with-image/
update_newsletter_with_image(newsletter_id, form, image, delete_outcome, upload_outcome) ==
  LET old == newsletters[newsletter_id]
      staged == ApplyFields(old, form)
      pending == [newsletters EXCEPT ![newsletter_id] = Touch(old, staged, clock)]
      has_old == image # None /\ Truthy(staged.image_url)
      old_filename == LastSegment(staged.image_url[1])
      del == IF has_old THEN delete_file_from_s3(blobs, old_filename, delete_outcome)
                        ELSE [store |-> blobs, ret |-> TRUE, raised |-> FALSE]
      del_calls == IF has_old THEN <<Call("delete", old_filename, delete_outcome)>> ELSE << >>
      key == unique_filename(clock, splitext1(image[1].filename))
      up == upload_file_to_s3(del.store, key, upload_outcome)
      up_calls == Append(del_calls, Call("upload", key, upload_outcome))
      fail(calls) == Response("update_newsletter_with_image", Some(newsletter_id), 500, calls,
                              image, form)
      commit(row, calls) ==
        /\ newsletters' = [newsletters EXCEPT ![newsletter_id] = Touch(old, row, clock)]
        /\ last' = Response("update_newsletter_with_image", Some(newsletter_id),
                            Serialize(row), Append(calls, Commit), image, form)
  IN
  /\ Served("newsletter")
  /\ IF newsletter_id \notin DOMAIN newsletters
       \* the HTTPException(404) is raised inside the try whose
       \* "except Exception as e" rolls back and raises HTTPException(500)
       THEN /\ last' = fail(<< >>)
            /\ UNCHANGED <<newsletters, blobs>>
       ELSE IF image = None
         THEN /\ commit(staged, << >>)
              /\ blobs' = blobs
       ELSE IF del.raised
         THEN /\ last' = fail(del_calls)
              /\ blobs' = del.store
              /\ newsletters' = rollback(newsletters, pending)
       ELSE IF up.raised \/ up.ret = None
         THEN /\ last' = fail(up_calls)
              /\ blobs' = up.store
              /\ newsletters' = rollback(newsletters, pending)
       ELSE /\ commit([staged EXCEPT !.image_url = up.ret], up_calls)
            /\ blobs' = up.store
  /\ UNCHANGED <<templates, clock, next_newsletter_id, next_template_id>>

\* PUT /newsletters/{newsletter_id}
update_newsletter(newsletter_id, payload) ==
  /\ Served("newsletter")
  /\ IF newsletter_id \notin DOMAIN newsletters
       THEN /\ last' = Response("update_newsletter", Some(newsletter_id), 404, << >>, None, payload)
            /\ UNCHANGED newsletters
       ELSE /\ newsletters' = [newsletters EXCEPT ![newsletter_id] =
                                 Touch(@, ApplyFields(@, payload), clock)]
            /\ last' = Response("update_newsletter", Some(newsletter_id),
                                Serialize(ApplyFields(newsletters[newsletter_id], payload)),
                                <<Commit>>, None, payload)
  /\ UNCHANGED <<templates, blobs, clock, next_newsletter_id, next_template_id>>

\* DELETE /newsletters/{newsletter_id}
delete_newsletter(newsletter_id, delete_outcome) ==
  LET row == newsletters[newsletter_id]
      has_image == Truthy(row.image_url)
      filename == LastSegment(row.image_url[1])
      del == IF has_image THEN delete_file_from_s3(blobs, filename, delete_outcome)
                          ELSE [store |-> blobs, ret |-> TRUE, raised |-> FALSE]
      del_calls == IF has_image THEN <<Call("delete", filename, delete_outcome)>> ELSE << >>
  IN
  /\ Served("newsletter")
  /\ IF newsletter_id \notin DOMAIN newsletters
       THEN /\ last' = Response("delete_newsletter", Some(newsletter_id), 404, << >>, None, NoPayload)
            /\ UNCHANGED <<newsletters, blobs>>
       ELSE IF del.raised
         \* no handler around the adapter call: the request ends in a 500 and
         \* the closed session commits nothing
         THEN /\ last' = Response("delete_newsletter", Some(newsletter_id), 500, del_calls,
                                  None, NoPayload)
              /\ blobs' = del.store
              /\ UNCHANGED newsletters
       ELSE /\ newsletters' = Remove(newsletters, newsletter_id)
            /\ blobs' = del.store
            /\ last' = Response("delete_newsletter", Some(newsletter_id), 200,
                                Append(del_calls, Commit), None, NoPayload)
  /\ UNCHANGED <<templates, clock, next_newsletter_id, next_template_id>>

\* GET /newsletters/{newsletter_id}: the response status
read_newsletter(newsletter_id) ==
  IF newsletter_id \notin DOMAIN newsletters THEN 404 ELSE Serialize(newsletters[newsletter_id])

\* GET /newsletters/{newsletter_id}/image: the response status
get_newsletter_image(newsletter_id) ==
  IF newsletter_id \notin DOMAIN newsletters \/ ~Truthy(newsletters[newsletter_id].image_url)
    THEN 404
    ELSE IF LastSegment(newsletters[newsletter_id].image_url[1]) \in blobs THEN 200 ELSE 500

\* --------------------------------------------------------- specification
\* the path ids a request is made with: every row of the table, and one id
\* that matches no row
PathIds(table, next_id) == DOMAIN table \cup {next_id}

\* the outcomes of a storage call, drawn only where the call is made
OutcomesIf(called) == IF called THEN StorageOutcomes ELSE {"ok"}

CreateTemplate ==
  /\ requests.template < MaxTemplateRequests
  /\ next_template_id <= MaxTemplates
  /\ \E name \in Names, content \in Contents : create_template(name, content)
  /\ UNCHANGED sessions

DeleteTemplate ==
  /\ requests.template < MaxTemplateRequests
  /\ \E id \in PathIds(templates, next_template_id) : delete_template(id)
  /\ UNCHANGED sessions

CreateNewsletterWithImage ==
  /\ requests.newsletter < MaxNewsletterRequests
  /\ \E title \in Titles, content \in Contents, status \in Statuses,
        scheduled_date \in {None} \cup {Some(d) : d \in Dates},
        template_id \in {None} \cup {Some(t) : t \in TemplateIds},
        image \in {None} \cup {Some(i) : i \in Images} :
       \E upload_outcome \in OutcomesIf(image # None), db_ok \in BOOLEAN :
         create_newsletter_with_image(title, content, status, scheduled_date, template_id,
                                      image, upload_outcome, db_ok)
  /\ UNCHANGED sessions

UpdateNewsletterWithImage ==
  /\ requests.newsletter < MaxNewsletterRequests
  /\ \E id \in PathIds(newsletters, next_newsletter_id), form \in UpdateForms,
        image \in {None} \cup {Some(i) : i \in Images} :
       \E delete_outcome \in OutcomesIf(image # None),
          upload_outcome \in OutcomesIf(image # None) :
         update_newsletter_with_image(id, form, image, delete_outcome, upload_outcome)
  /\ UNCHANGED sessions

UpdateNewsletter ==
  /\ requests.newsletter < MaxNewsletterRequests
  /\ \E id \in PathIds(newsletters, next_newsletter_id), payload \in NewsletterUpdate :
       update_newsletter(id, payload)
  /\ UNCHANGED sessions

DeleteNewsletter ==
  /\ requests.newsletter < MaxNewsletterRequests
  /\ \E id \in PathIds(newsletters, next_newsletter_id),
        delete_outcome \in StorageOutcomes :
       delete_newsletter(id, delete_outcome)
  /\ UNCHANGED sessions

Next ==
  \/ Tick
  \/ CreateTemplate
  \/ DeleteTemplate
  \/ CreateNewsletterWithImage
  \/ UpdateNewsletterWithImage
  \/ UpdateNewsletter
  \/ DeleteNewsletter

Spec == Init /\ [][Next]_vars

\* ------------------------------------------------- concurrent update requests
\* An update request in steps: the query that loads the row into the request's
\* session and the setattr calls on it, the storage calls of the multipart
\* handler, and db.commit() with db.refresh().  Between the steps of one request
\* the steps of another may run.

\* the requests that have committed
Committed == {s \in Sessions : sessions[s].commit_no > 0}

Flush_whole_row(current, loaded, staged, now) ==
  IF staged = loaded THEN current ELSE [staged EXCEPT !.updated_at = now]

\* the UPDATE of db.commit(): the unit of work writes the columns whose value in
\* the session differs from the value the session loaded, and onupdate refreshes
\* updated_at; a session with no such column emits no UPDATE
Flush(current, loaded, staged, now) ==
  LET changed == {c \in Fields : staged[c] # loaded[c]}
  IN IF changed = {}
       THEN current
       ELSE [c \in DOMAIN current |->
               IF c \in changed THEN staged[c]
               ELSE IF c = "updated_at" THEN now ELSE current[c]]

\* db.query(models.Newsletter).filter(id == newsletter_id).first() and the
\* assignments of the set fields, of update_newsletter (op "update_newsletter")
\* and of update_newsletter_with_image
begin_update(s, op, newsletter_id, payload, image) ==
  LET me == sessions[s]
      started == [me EXCEPT !.op = op, !.id = Some(newsletter_id), !.payload = payload,
                            !.image = image, !.seen = Committed]
  IN
  /\ me.pc = "idle"
  /\ IF newsletter_id \notin DOMAIN newsletters
       \* HTTPException(404), which the except of the multipart handler turns
       \* into HTTPException(500)
       THEN sessions' = [sessions EXCEPT ![s] =
                           [started EXCEPT !.pc = "done",
                                           !.status = IF op = "update_newsletter" THEN 404 ELSE 500]]
       ELSE sessions' = [sessions EXCEPT ![s] =
                           [started EXCEPT !.pc = IF image = None THEN "staged" ELSE "image",
                                           !.loaded = newsletters[newsletter_id],
                                           !.staged = ApplyFields(newsletters[newsletter_id], payload)]]
  /\ UNCHANGED <<newsletters, templates, blobs, clock, next_newsletter_id, next_template_id,
                 requests, last>>

\* "if image:" of update_newsletter_with_image: the old blob is deleted, the
\* new one uploaded and its URL assigned; an exception or the upload's sentinel
\* ends the request in rollback and HTTPException(500)
store_image(s, delete_outcome, upload_outcome) ==
  LET me == sessions[s]
      has_old == Truthy(me.staged.image_url)
      old_filename == LastSegment(me.staged.image_url[1])
      del == IF has_old THEN delete_file_from_s3(blobs, old_filename, delete_outcome)
                        ELSE [store |-> blobs, ret |-> TRUE, raised |-> FALSE]
      del_calls == IF has_old THEN <<Call("delete", old_filename, delete_outcome)>> ELSE << >>
      key == unique_filename(clock, splitext1(me.image[1].filename))
      up == upload_file_to_s3(del.store, key, upload_outcome)
      up_calls == Append(del_calls, Call("upload", key, upload_outcome))
  IN
  /\ me.pc = "image"
  /\ IF del.raised
       THEN /\ blobs' = del.store
            /\ sessions' = [sessions EXCEPT ![s] =
                              [me EXCEPT !.pc = "done", !.status = 500, !.calls = del_calls]]
       ELSE IF up.raised \/ up.ret = None
         THEN /\ blobs' = up.store
              /\ sessions' = [sessions EXCEPT ![s] =
                                [me EXCEPT !.pc = "done", !.status = 500, !.calls = up_calls]]
       ELSE /\ blobs' = up.store
            /\ sessions' = [sessions EXCEPT ![s] =
                              [me EXCEPT !.pc = "staged", !.calls = up_calls,
                                         !.staged = [me.staged EXCEPT !.image_url = up.ret]]]
  /\ UNCHANGED <<newsletters, templates, clock, next_newsletter_id, next_template_id,
                 requests, last>>

\* db.commit() and db.refresh(db_newsletter): the UPDATE of the session is
\* applied to the row as it is in the table now, and the response carries the
\* row read back
commit_update(s) ==
  LET me == sessions[s]
      id == me.id[1]
      row == Flush(newsletters[id], me.loaded, me.staged, clock)
  IN
  /\ me.pc = "staged"
  /\ id \in DOMAIN newsletters
  /\ newsletters' = [newsletters EXCEPT ![id] = row]
  /\ sessions' = [sessions EXCEPT ![s] =
                    [me EXCEPT !.pc = "done", !.status = Serialize(row),
                               !.calls = Append(me.calls, Commit),
                               !.commit_no = Cardinality(Committed) + 1]]
  /\ UNCHANGED <<templates, blobs, clock, next_newsletter_id, next_template_id,
                 requests, last>>

\* the payloads and forms of the concurrent requests
SessionPayloads == {p \in NewsletterUpdate : Cardinality(SetFields(p)) <= MaxSessionFields}
SessionForms == {p \in UpdateForms : Cardinality(SetFields(p)) <= MaxSessionFields}
SessionImages == {[content_type |-> "image/png", filename |-> <<"photo", ".png">>]}

\* the requests at a step of their handler
At(pc) == {s \in Sessions : sessions[s].pc = pc}

SessionRead ==
  \E s \in At("idle"), id \in PathIds(newsletters, next_newsletter_id) :
    \/ \E payload \in SessionPayloads :
         begin_update(s, "update_newsletter", id, payload, None)
    \/ \E form \in SessionForms, image \in {None} \cup {Some(i) : i \in SessionImages} :
         begin_update(s, "update_newsletter_with_image", id, form, image)

SessionStore ==
  \E s \in At("image"), delete_outcome \in StorageOutcomes, upload_outcome \in StorageOutcomes :
    store_image(s, delete_outcome, upload_outcome)

SessionCommit == \E s \in At("staged") : commit_update(s)

\* the table after one POST /newsletters/with-image/ with title, content and
\* status and none of the optional fields
InitSessions ==
  /\ sessions = [s \in Sessions |-> IdleSession]
  /\ newsletters = Insert(<< >>, 1,
                          [title |-> Some("t1"), content |-> Some("c1"),
                           status |-> Some("draft"), scheduled_date |-> None,
                           template_id |-> None, image_url |-> None,
                           created_at |-> 0, updated_at |-> 0])
  /\ templates = << >>
  /\ blobs = {}
  /\ clock = 0
  /\ next_newsletter_id = 2
  /\ next_template_id = 1
  /\ requests = [newsletter |-> 1, template |-> 0]
  /\ last = [op |-> "create_newsletter_with_image", id |-> Some(1), status |-> 200,
             calls |-> <<Commit>>, image |-> None, payload |-> NoPayload]

NextSessions ==
  \/ Tick
  \/ SessionRead
  \/ SessionStore
  \/ SessionCommit

SpecSessions == InitSessions /\ [][NextSessions]_vars

\* ----------------------------------------------------------------- claims
\* a step that serves a request of the handler op
RequestStep(op) == requests' # requests /\ last'.op = op

\* the storage calls of a log, by adapter function
CallsOf(calls, fn) == {i \in DOMAIN calls : calls[i].fn = fn}

\* the file of a request fails the type checks of the spec: declared type
\* outside {image/jpeg, image/png} or lower-cased extension outside
\* {.jpg, .jpeg, .png}
RejectedType(image) ==
  /\ image # None
  /\ \/ image[1].content_type \notin {"image/jpeg", "image/png"}
     \/ lower(image[1].filename[2]) \notin {".jpg", ".jpeg", ".png"}

\* C1: a POST /newsletters/with-image/ whose image has a content type or a
\* lower-cased extension outside the allow-lists fails with status 400,
\* attempts no upload and creates no Newsletter.
C1_InvalidImageIs400 ==
  [][(RequestStep("create_newsletter_with_image") /\ RejectedType(last'.image))
       => /\ last'.status = 400
          /\ CallsOf(last'.calls, "upload") = {}
          /\ newsletters' = newsletters]_vars

\* C2: a PUT /newsletters/{id}/with-image/ whose id matches no Newsletter
\* fails with status 404 and changes neither the database nor the store.
C2_UpdateWithImageMissingIs404 ==
  [][(RequestStep("update_newsletter_with_image") /\ last'.id[1] \notin DOMAIN newsletters)
       => /\ last'.status = 404
          /\ newsletters' = newsletters
          /\ templates' = templates
          /\ blobs' = blobs]_vars

\* C3: in every reachable state, every Newsletter with a non-null image_url
\* refers to a blob that exists in storage under the key of the URL's last
\* path segment.
C3_ImageUrlPointsToBlob ==
  \A id \in DOMAIN newsletters :
    newsletters[id].image_url # None
      => LastSegment(newsletters[id].image_url[1]) \in blobs

\* C4: when DELETE /newsletters/{id} succeeds for a Newsletter that had an
\* image, the storage delete came before the commit of the row's deletion,
\* the blob is gone from storage, and GET /newsletters/{id}/image is a 404.
C4_DeleteRemovesBlob ==
  (last.op = "delete_newsletter" /\ last.status = 200 /\ CallsOf(last.calls, "delete") # {})
    => /\ Len(last.calls) = 2
       /\ last.calls[1].fn = "delete"
       /\ last.calls[2] = Commit
       /\ last.calls[1].key \notin blobs
       /\ get_newsletter_image(last.id[1]) = 404

\* the upload of the latest request failed: sentinel or exception
UploadFailed(calls) == \E i \in CallsOf(calls, "upload") : calls[i].out # "ok"

\* C5: a POST /newsletters/with-image/ with a valid image whose upload fails
\* answers 500 and leaves the set of Newsletter rows as it was.
C5_FailedUploadCreatesNothing ==
  [][(/\ RequestStep("create_newsletter_with_image")
      /\ last'.image # None
      /\ ~RejectedType(last'.image)
      /\ UploadFailed(last'.calls))
       => /\ last'.status = 500
          /\ newsletters' = newsletters]_vars

\* C5 witness: a create request with a valid image was answered 500 after an
\* upload that returned the sentinel, with no row added
C5_Witness ==
  /\ last.op = "create_newsletter_with_image"
  /\ last.image # None
  /\ ~RejectedType(last.image)
  /\ \E i \in CallsOf(last.calls, "upload") : last.calls[i].out = "client_error"
  /\ last.status = 500
  /\ last.id = None

\* C6: a PUT /newsletters/{id}/with-image/ on an existing Newsletter with
\* field values and a new image whose upload fails answers a server error and
\* commits none of the field changes: the persisted row is as before.
C6_FailedUploadCommitsNoField ==
  [][(/\ RequestStep("update_newsletter_with_image")
      /\ last'.id[1] \in DOMAIN newsletters
      /\ SetFields(last'.payload) # {}
      /\ last'.image # None
      /\ UploadFailed(last'.calls))
       => /\ last'.status = 500
          /\ newsletters' = newsletters]_vars

\* C6 witness: an update with a new title and an image was answered 500 after
\* a failed upload, and the row still has a title other than the supplied one
C6_Witness ==
  /\ last.op = "update_newsletter_with_image"
  /\ last.status = 500
  /\ last.image # None
  /\ UploadFailed(last.calls)
  /\ last.id[1] \in DOMAIN newsletters
  /\ last.payload.title # Unset
  /\ newsletters[last.id[1]].title # last.payload.title[1]

\* C7: after a PUT /newsletters/{id} on an existing Newsletter, every field
\* set in the payload (also one set to null) holds the payload's value, and
\* every omitted field, the id and created_at are as before the update.
C7_PartialUpdateFrame ==
  [][(RequestStep("update_newsletter") /\ last'.id[1] \in DOMAIN newsletters)
       => LET id == last'.id[1]
              p == last'.payload
          IN /\ CallsOf(last'.calls, "commit") # {}
             /\ DOMAIN newsletters' = DOMAIN newsletters
             /\ \A f \in Fields :
                  IF p[f] # Unset
                    THEN newsletters'[id][f] = p[f][1]
                    ELSE newsletters'[id][f] = newsletters[id][f]
             /\ newsletters'[id].created_at = newsletters[id].created_at]_vars

\* C7 witness: a JSON update set one field to null on a row and left another,
\* non-null field out of the payload
C7_Witness ==
  /\ last.op = "update_newsletter"
  /\ CallsOf(last.calls, "commit") # {}
  /\ \E f \in Fields : last.payload[f] = SetTo(None) /\ newsletters[last.id[1]][f] = None
  /\ \E g \in Fields : last.payload[g] = Unset /\ newsletters[last.id[1]][g] # None

C9_KeysUnique ==
  \A i, j \in DOMAIN newsletters :
    (i # j /\ newsletters[i].image_url # None)
      => newsletters[i].image_url # newsletters[j].image_url

\* C10: the storage adapter turns every failure of a storage call made by a
\* handler into its sentinel: upload_file_to_s3 returns None and
\* delete_file_from_s3 returns False, and neither lets an exception out.
C10_AdapterNeverRaises ==
  \A i \in DOMAIN last.calls :
    LET c == last.calls[i]
    IN /\ c.fn = "upload" =>
            LET r == upload_file_to_s3(blobs, c.key, c.out)
            IN ~r.raised /\ (r.ret # None <=> c.out = "ok")
       /\ c.fn = "delete" =>
            LET r == delete_file_from_s3(blobs, c.key, c.out)
            IN ~r.raised /\ (r.ret <=> c.out = "ok")

\* C12: on both paths that store an image, create-with-image and
\* update-with-image, a file whose declared content type or extension is
\* outside the allow-lists is never uploaded and never changes an image_url.
C12_EveryUploadValidated ==
  [][((RequestStep("create_newsletter_with_image") \/ RequestStep("update_newsletter_with_image"))
      /\ RejectedType(last'.image))
       => /\ CallsOf(last'.calls, "upload") = {}
          /\ blobs' = blobs
          /\ \A id \in DOMAIN newsletters \cap DOMAIN newsletters' :
               newsletters'[id].image_url = newsletters[id].image_url]_vars

\* two update requests on the same row, each of which read the row before the
\* other committed, s the first to commit and t the last
Concurrent(s, t) ==
  /\ s # t
  /\ sessions[s].commit_no > 0
  /\ sessions[t].commit_no > sessions[s].commit_no
  /\ sessions[s].id = sessions[t].id
  /\ s \notin sessions[t].seen
  /\ t \notin sessions[s].seen

SetByBoth(s, t) == SetFields(sessions[s].payload) \cap SetFields(sessions[t].payload)

====
